---- MODULE Spec2Model ----
(***************************************************************************)
(* A model of drawingapp.py: the DrawingApp window of the digit            *)
(* recognition sketchpad.  The state is the 28x28 intensity grid, the fill *)
(* colour of every canvas rectangle, the drawing flag and the text of the  *)
(* results panel; the actions are the four event handlers (_start_draw,    *)
(* _draw, _stop_draw, clear).                                              *)
(*                                                                         *)
(* Numbers.  Pointer coordinates are Tk integers, so every distance the    *)
(* brush computes is the square root of an integer d2 = dx^2 + dy^2.  An   *)
(* intensity 1 - sqrt(d2)/15 is held in fixed point, in units of           *)
(* 1/(brush_radius * Scale), rounded down.  Where the IEEE arithmetic of   *)
(* the program differs from exact arithmetic the difference is part of the *)
(* model (F32RoundsDown, F64GrayShort below); both sets were computed by   *)
(* evaluating the program's expressions for every d2 <= 225.               *)
(***************************************************************************)
EXTENDS Integers, Sequences, FiniteSets, TLC

\* ---------------------------------------------------------------- constants
rows == 28
cols == 28
cell_size == 10
canvas_width == cols * cell_size
canvas_height == rows * cell_size
\* brush_radius = cell_size * 1.5
brush_radius == (cell_size * 3) \div 2

\* Fixed-point resolution: an intensity v is the integer floor(v * One).
Scale == 3000
One == brush_radius * Scale

Rows == 0 .. (rows - 1)
Cols == 0 .. (cols - 1)
Cells == Rows \X Cols
Digits == 0 .. 9

Max(a, b) == IF a >= b THEN a ELSE b
Min(a, b) == IF a <= b THEN a ELSE b

\* ------------------------------------------------------------------ bounds
\* The pointer positions the events are drawn from: the first MaxProbes
\* entries of Probes.
MaxProbes == 5

\* (x, y) of a pointer event.  <<0,0>>: a canvas corner, the brush reaches
\* one cell only; <<145,145>>: the centre of cell (14,14); <<-12,-12>>:
\* dragged past the corner, the brush circle misses the grid but its
\* bounding square does not; <<-20,50>>: dragged past the left edge;
\* <<279,274>>: the last pixel column; <<150,145>>: between two cells, its
\* brush overlaps that of <<145,145>>.
Probes ==
  << <<0, 0>>, <<145, 145>>, <<150, 145>>, <<-12, -12>>, <<-20, 50>>,
     <<279, 274>>, <<-9, 105>> >>

Positions == { Probes[i] : i \in 1 .. Min(MaxProbes, Len(Probes)) }

\* <Button-1> reaches the canvas only with the pointer on it; <B1-Motion>
\* goes on, with coordinates off the canvas, while the button is held.
OnCanvas ==
  { p \in Positions : p[1] \in 0 .. (canvas_width - 1)
                       /\ p[2] \in 0 .. (canvas_height - 1) }

\* ------------------------------------------------------------- arithmetic
\* The least k in lo..hi with k*k >= n (lo*lo < n or lo = 0, hi*hi >= n).
RECURSIVE CeilSqrtIn(_, _, _)
CeilSqrtIn(n, lo, hi) ==
  IF lo >= hi THEN hi
  ELSE LET mid == (lo + hi) \div 2
       IN  IF mid * mid >= n THEN CeilSqrtIn(n, lo, mid)
           ELSE CeilSqrtIn(n, mid + 1, hi)

CeilSqrt(n) == CeilSqrtIn(n, 0, One)

FloorSqrt(n) == LET k == CeilSqrt(n) IN IF k * k = n THEN k ELSE k - 1

\* math.hypot(cx - x, cy - y) ** 2 for the centre of cell (r, c):
\* cx = (c + 0.5) * cell_size, cy = (r + 0.5) * cell_size.
Dist2(r, c, x, y) ==
  LET cx == ((2 * c + 1) * cell_size) \div 2
      cy == ((2 * r + 1) * cell_size) \div 2
  IN  (cx - x) * (cx - x) + (cy - y) * (cy - y)

\* intensity = 1.0 - (dist / brush_radius), in units of 1/One.
FalloffIntensity(d2) == One - CeilSqrt(Scale * Scale * d2)

\* The squared distances d2 for which the float64 intensity is strictly
\* greater than its float32 rounding (the value self.pixels stores).
F32RoundsDown ==
  { 5, 10, 13, 17, 26, 29, 37, 52, 61, 73, 74, 80, 82, 85, 89, 97, 106, 113,
    116, 125, 128, 137, 146, 148, 153, 164, 170, 185, 193, 194, 197, 200,
    208, 212 }

\* The squared distances for which 255 * (1.0 - intensity) evaluates, in
\* float64, just below the integer 17 * dist.
F64GrayShort == { 1, 4, 9, 16, 25 }

\* gray = int(255 * (1.0 - intensity))
Gray(d2) ==
  FloorSqrt((255 * 255 * d2) \div (brush_radius * brush_radius))
    - (IF d2 \in F64GrayShort THEN 1 ELSE 0)

HexDigit ==
  << "0", "1", "2", "3", "4", "5", "6", "7",
     "8", "9", "a", "b", "c", "d", "e", "f" >>

\* f"{gray:02x}"
Hex2(g) == HexDigit[(g \div 16) + 1] \o HexDigit[(g % 16) + 1]

\* color = f"#{gray:02x}{gray:02x}{gray:02x}"
Color(g) == "#" \o Hex2(g) \o Hex2(g) \o Hex2(g)

\* Mutant of Exceeds: the update is unconditional.
ExceedsAlways(legacy, d2, stored) == TRUE

\* intensity > self.pixels[r, c], the test of max() and of the if.  The left
\* side is a Python float (float64), the right side a numpy float32.  Under
\* numpy's legacy promotion the comparison is made in float64, so a value
\* that float32 rounded down is exceeded by the float64 it came from; under
\* weak scalar promotion (NEP 50) the Python float is first cast to float32.
Exceeds(legacy, d2, stored) ==
  \/ FalloffIntensity(d2) > stored
  \/ legacy /\ FalloffIntensity(d2) = stored /\ d2 \in F32RoundsDown

\* ------------------------------------------------------- Brush Rasterizer
\* numpy indexing of an axis of length n: a negative index counts from the
\* end, an index outside -n .. n-1 raises IndexError.
IndexOk(i, n) == -n <= i /\ i < n
Wrap(i, n) == IF i < 0 THEN i + n ELSE i

\* The body of the two loops for one candidate cell (r, c).  st holds the
\* grid and the fills as the loop leaves them, and what the paint did:
\* visited (the candidate cells), written (the cells it updated), updated
\* (the flag of the code) and error (an exception ended the handler).
PaintCell(st, legacy, r, c, x, y) ==
  LET d2 == Dist2(r, c, x, y)
      seen == [st EXCEPT !.visited = @ \cup {<<r, c>>}]
      ar == Wrap(r, rows)
      ac == Wrap(c, cols)
  IN  IF d2 <= brush_radius * brush_radius
      THEN IF ~(IndexOk(r, rows) /\ IndexOk(c, cols))
           THEN [seen EXCEPT !.error = TRUE]
           ELSE IF Exceeds(legacy, d2, st.pixels[ar][ac])
                THEN [seen EXCEPT !.pixels[ar][ac] = FalloffIntensity(d2),
                                  !.fill[ar][ac] = Color(Gray(d2)),
                                  !.written = @ \cup {<<ar, ac>>},
                                  !.updated = TRUE]
                ELSE seen
      ELSE seen

\* for r in range(r_min, r_max + 1): for c in range(c_min, c_max + 1),
\* the k-th of n candidate cells in row-major order, nC cells to a row.
RECURSIVE PaintLoop(_, _, _, _, _, _, _, _, _)
PaintLoop(st, legacy, k, n, nC, r_min, c_min, x, y) ==
  IF k >= n \/ st.error THEN st
  ELSE PaintLoop(PaintCell(st, legacy, r_min + (k \div nC), c_min + (k % nC), x, y),
                 legacy, k + 1, n, nC, r_min, c_min, x, y)

\* Mutant of RMin: the first row is not clipped to the grid.
RMinUnclipped(y) == (y - brush_radius) \div cell_size

\* The affected cell range, clipped to the grid.
RMin(y) == Max(0, (y - brush_radius) \div cell_size)
RMax(y) == Min(rows - 1, (y + brush_radius) \div cell_size)
CMin(x) == Max(0, (x - brush_radius) \div cell_size)
CMax(x) == Min(cols - 1, (x + brush_radius) \div cell_size)

\* _antialiased_paint(x, y) up to the test of `updated`.
Paint(px, fl, legacy, x, y) ==
  LET nR == Max(0, RMax(y) - RMin(y) + 1)
      nC == Max(0, CMax(x) - CMin(x) + 1)
      st0 == [pixels |-> px, fill |-> fl, updated |-> FALSE, error |-> FALSE,
              visited |-> {}, written |-> {}]
  IN  PaintLoop(st0, legacy, 0, nR * nC, nC, RMin(y), CMin(x), x, y)

\* ------------------------------------------------------------ Preprocessor
RECURSIVE SumTo(_, _, _)
\* f[lo] + ... + f[hi]
SumTo(f, lo, hi) == IF lo > hi THEN 0 ELSE f[lo] + SumTo(f, lo + 1, hi)

\* A function with its values computed once.
Table(f) == f @@ <<>>

\* np.any(self.pixels)
AnyInk(px) == \E r \in Rows : \E c \in Cols : px[r][c] # 0

\* img = (self.pixels * 255).astype(np.uint8)
ToUint8(px) ==
  Table([r \in Rows |-> Table([c \in Cols |-> (255 * px[r][c]) \div One])])

\* int(v) of the quotient a / b, b > 0: truncation towards zero.
TruncDiv(a, b) == IF a >= 0 THEN a \div b ELSE -((-a) \div b)

\* coords = np.column_stack(np.nonzero(img)); weights = img[img > 0];
\* shift_y = int(rows // 2 - np.average(coords[:, 0], weights = weights)),
\* shift_x likewise on the columns.  x = y = 0 stands for "no transform"
\* when coords is empty.
CenterShift(img) ==
  LET rowSum == Table([r \in Rows |-> SumTo(img[r], 0, cols - 1)])
      colSum == Table([c \in Cols |-> SumTo([r \in Rows |-> img[r][c]], 0, rows - 1)])
      w == SumTo(rowSum, 0, rows - 1)
      sy == SumTo([r \in Rows |-> r * rowSum[r]], 0, rows - 1)
      sx == SumTo([c \in Cols |-> c * colSum[c]], 0, cols - 1)
  IN  IF w = 0 THEN [x |-> 0, y |-> 0]
      ELSE [x |-> TruncDiv((cols \div 2) * w - sx, w),
            y |-> TruncDiv((rows \div 2) * w - sy, w)]

\* pil_img.transform(size, Image.AFFINE, (1, 0, shift_x, 0, 1, shift_y),
\* fillcolor = 0): the output pixel (x, y) is the input pixel at
\* (1*x + 0*y + shift_x, 0*x + 1*y + shift_y), 0 where that is outside.
AffineShift(img, sh) ==
  Table([r \in Rows |-> Table([c \in Cols |->
          IF (r + sh.y) \in Rows /\ (c + sh.x) \in Cols
          THEN img[r + sh.y][c + sh.x] ELSE 0])])

\* Pillow's GaussianBlur(0.5) is three passes of a box blur of radius 1/22
\* along the rows, then three along the columns, each pass rounding to
\* uint8 with 24-bit fixed-point weights: ww for the pixel, fw for each of
\* its two neighbours, the edge pixel repeated past the edge.
BoxWW == 15379114
BoxFW == 699051
Half12 == 4096

\* (acc * ww + far * fw + 2^23) >> 24, the products split in 12-bit halves.
BoxRound(acc, far) ==
  IF acc = 0 /\ far = 0 THEN 0
  ELSE LET hi == acc * (BoxWW \div Half12) + far * (BoxFW \div Half12)
           lo == acc * (BoxWW % Half12) + far * (BoxFW % Half12)
                   + (Half12 * Half12) \div 2
       IN  (hi + (lo \div Half12)) \div Half12

HorizontalBoxBlur(img) ==
  Table([r \in Rows |-> Table([c \in Cols |->
          BoxRound(img[r][c],
                   img[r][Max(c - 1, 0)] + img[r][Min(c + 1, cols - 1)])])])

VerticalBoxBlur(img) ==
  Table([r \in Rows |-> Table([c \in Cols |->
          BoxRound(img[r][c],
                   img[Max(r - 1, 0)][c] + img[Min(r + 1, rows - 1)][c])])])

\* pil_img.filter(ImageFilter.GaussianBlur(radius = 0.5))
GaussianBlur(img) ==
  VerticalBoxBlur(VerticalBoxBlur(VerticalBoxBlur(
    HorizontalBoxBlur(HorizontalBoxBlur(HorizontalBoxBlur(img))))))

\* mn, mx = np_img.min(), np_img.max();
\* if mx > mn: np_img = (np_img - mn) / (mx - mn).  A value is the fraction
\* num / den.
ContrastStretch(img) ==
  LET vals == UNION { { img[r][c] : c \in Cols } : r \in Rows }
      mn == CHOOSE v \in vals : \A u \in vals : v <= u
      mx == CHOOSE v \in vals : \A u \in vals : v >= u
  IN  IF mx > mn
      THEN Table([r \in Rows |-> Table([c \in Cols |->
             [num |-> img[r][c] - mn, den |-> mx - mn]])])
      ELSE Table([r \in Rows |-> Table([c \in Cols |->
             [num |-> img[r][c], den |-> 1]])])

\* vect = np_img.reshape((784, 1)): row-major.
Flatten(np_img) ==
  [k \in 1 .. (rows * cols) |-> np_img[(k - 1) \div cols][(k - 1) % cols]]

\* Lines 126-157 of _update_results: the image after the transform, the
\* shift and the vector handed to the network.
Preprocess(px) ==
  LET img == ToUint8(px)
      sh == CenterShift(img)
      moved == AffineShift(img, sh)
  IN  [shift |-> sh, centered |-> moved,
       vect |-> Flatten(ContrastStretch(GaussianBlur(moved)))]

\* ------------------------------------------------------- Inference Adapter
\* self.net.feedforward(vect): the network lives in network.py.  It stands
\* here as a fixed function from the 784 inputs to ten probabilities, in
\* units of 1/10000.  The digit the lit inputs (>= 1/2) count to, modulo
\* 10, gets the first entry of NetShape and the digits after it the next.
NetShape == << 5500, 1000, 900, 800, 700, 400, 400, 200, 100, 0 >>

Feedforward(vect) ==
  LET lit == Cardinality({ k \in DOMAIN vect : 2 * vect[k].num >= vect[k].den })
  IN  [d \in Digits |-> NetShape[((d - lit) % 10) + 1]]

\* -------------------------------------------------------- Results Renderer
DigitStr == << "0", "1", "2", "3", "4", "5", "6", "7", "8", "9" >>

RECURSIVE Dec(_)
\* str(n), n >= 0
Dec(n) == IF n < 10 THEN DigitStr[n + 1] ELSE Dec(n \div 10) \o DigitStr[(n % 10) + 1]

RECURSIVE PadLeft(_, _)
PadLeft(s, width) == IF Len(s) >= width THEN s ELSE PadLeft(" " \o s, width)

\* f"{pct:6.2f}" for pct = probs[d] * 100, the probability p in 1/10000.
Fmt62(p) ==
  PadLeft(Dec(p \div 100) \o "." \o DigitStr[((p % 100) \div 10) + 1]
            \o DigitStr[(p % 10) + 1], 6)

\* f"{d}: {pct:6.2f}%\n"
RankedLine(d, p) == DigitStr[d + 1] \o ": " \o Fmt62(p) \o "%"

\* f"{d}:    0.00%\n"
ZeroLine(d) == DigitStr[d + 1] \o ":    0.00%"

\* for d in range(10): insert the zero line of d.
ZeroPanel == [i \in 1 .. 10 |-> ZeroLine(i - 1)]

\* The sequence t with d put after its first k entries.
InsertAt(t, k, d) == SubSeq(t, 1, k) \o << d >> \o SubSeq(t, k + 1, Len(t))

RECURSIVE RankingsOf(_, _)
\* The orders of the digits of S by descending probability: a digit of S
\* goes, in an order of the others, after entries that are no smaller and
\* before entries that are no larger.
RankingsOf(probs, S) ==
  IF S = {} THEN { <<>> }
  ELSE LET d == CHOOSE e \in S : TRUE
       IN  { InsertAt(tk[1], tk[2], d) :
               tk \in { uk \in RankingsOf(probs, S \ {d}) \X (0 .. Cardinality(S) - 1) :
                          /\ \A i \in 1 .. uk[2] : probs[uk[1][i]] >= probs[d]
                          /\ \A i \in uk[2] + 1 .. Len(uk[1]) :
                               probs[uk[1][i]] <= probs[d] } }

RECURSIVE AscendingOf(_, _)
AscendingOf(probs, S) ==
  IF S = {} THEN { <<>> }
  ELSE LET d == CHOOSE e \in S : TRUE
       IN  { InsertAt(tk[1], tk[2], d) :
               tk \in { uk \in AscendingOf(probs, S \ {d}) \X (0 .. Cardinality(S) - 1) :
                          /\ \A i \in 1 .. uk[2] : probs[uk[1][i]] <= probs[d]
                          /\ \A i \in uk[2] + 1 .. Len(uk[1]) :
                               probs[uk[1][i]] >= probs[d] } }

\* Mutant of Rankings: the [::-1] is missing.
RankingsAscending(probs) == AscendingOf(probs, DOMAIN probs)

\* ranking = np.argsort(probs)[::-1].  The order argsort gives equal
\* probabilities depends on the sort numpy dispatches to, so every
\* descending order is a possible ranking.
Rankings(probs) == RankingsOf(probs, DOMAIN probs)

\* for d in ranking: insert the ranked line of d.
RenderRanked(probs, ranking) ==
  [i \in 1 .. Len(ranking) |-> RankedLine(ranking[i], probs[ranking[i]])]

\* Lines 159-169: the texts the panel may end with for the output probs.
RenderOutputs(probs) == { RenderRanked(probs, rk) : rk \in Rankings(probs) }

NoForward == [vect |-> <<>>, probs |-> <<>>, centered |-> <<>>, shift |-> <<>>]

\* Mutant of UpdateResults: no short cut for the blank grid.
UpdateResultsAlwaysInfer(px) ==
  LET pre == Preprocess(px)
      probs == Feedforward(pre.vect)
  IN  [panels |-> RenderOutputs(probs), forward |-> TRUE,
       fwd |-> [vect |-> pre.vect, probs |-> probs,
                centered |-> pre.centered, shift |-> pre.shift]]

\* _update_results() on the grid px: the texts the panel may end with,
\* whether the forward pass ran, and what it ran on.
UpdateResults(px) ==
  IF ~AnyInk(px)
  THEN [panels |-> { ZeroPanel }, forward |-> FALSE, fwd |-> NoForward]
  ELSE LET pre == Preprocess(px)
           probs == Feedforward(pre.vect)
       IN  [panels |-> RenderOutputs(probs),
            forward |-> TRUE,
            fwd |-> [vect |-> pre.vect, probs |-> probs,
                     centered |-> pre.centered, shift |-> pre.shift]]

\* ------------------------------------------------------------------- state
VARIABLES
  pixels,    \* self.pixels: cell -> intensity, in units of 1/One
  fill,      \* the fill colour of the rectangle of every cell
  drawing,   \* self.drawing
  panel,     \* the lines of self.results_text
  legacy,    \* the numpy in use compares float32 with float in float64
  last,      \* the last handler that ran and what it did
  fwd        \* what the last run of _update_results handed to the network

vars == << pixels, fill, drawing, panel, legacy, last, fwd >>

Blank == Table([r \in Rows |-> Table([c \in Cols |-> 0])])
White == Table([r \in Rows |-> Table([c \in Cols |-> "white"])])

\* The record of a handler: the event, whether the grid had ink and the
\* drawing flag was set when it started, and what it did.
Event(op, x, y) ==
  [op |-> op, x |-> x, y |-> y,
   inked |-> (op # "init") /\ AnyInk(pixels),
   armed |-> (op # "init") /\ drawing,
   visited |-> {}, written |-> {},
   error |-> FALSE, refreshed |-> FALSE, forward |-> FALSE]

\* __init__: the grid is zero, every rectangle white, and the initial
\* display is _update_results() on the blank grid.
Init ==
  /\ pixels = Blank
  /\ fill = White
  /\ drawing = FALSE
  /\ legacy \in BOOLEAN
  /\ \E res \in { UpdateResults(Blank) } :
         /\ panel \in res.panels
         /\ fwd = res.fwd
         /\ last = [Event("init", 0, 0) EXCEPT
                      !.refreshed = TRUE, !.forward = res.forward]

\* Mutant of Refresh: the paint never refreshes the panel.
RefreshSkipped(st, op, x, y) ==
  /\ UNCHANGED << panel, fwd >>
  /\ last' = [Event(op, x, y) EXCEPT
                !.visited = st.visited, !.written = st.written, !.error = st.error]

\* if updated: self._update_results()
Refresh(st, op, x, y) ==
  LET ev == [Event(op, x, y) EXCEPT
               !.visited = st.visited, !.written = st.written, !.error = st.error]
  IN  IF st.updated /\ ~st.error
      THEN \E res \in { UpdateResults(st.pixels) } :
               /\ panel' \in res.panels
               /\ fwd' = res.fwd
               /\ last' = [ev EXCEPT !.refreshed = TRUE, !.forward = res.forward]
      ELSE /\ UNCHANGED << panel, fwd >>
           /\ last' = ev

\* _antialiased_paint(x, y)
AntialiasedPaint(op, x, y) ==
  \E st \in { Paint(pixels, fill, legacy, x, y) } :
      /\ pixels' = st.pixels
      /\ fill' = st.fill
      /\ Refresh(st, op, x, y)

\* _start_draw(event)
StartDraw(x, y) ==
  /\ drawing' = TRUE
  /\ AntialiasedPaint("start", x, y)
  /\ UNCHANGED legacy

\* Mutant of Draw: the drawing flag is not tested.
DrawUnguarded(x, y) ==
  /\ AntialiasedPaint("draw", x, y)
  /\ UNCHANGED << drawing, legacy >>

\* _draw(event)
Draw(x, y) ==
  /\ IF drawing
     THEN AntialiasedPaint("draw", x, y)
     ELSE /\ last' = Event("draw", x, y)
          /\ UNCHANGED << pixels, fill, panel, fwd >>
  /\ UNCHANGED << drawing, legacy >>

\* _stop_draw(event)
StopDraw ==
  /\ drawing' = FALSE
  /\ last' = Event("stop", 0, 0)
  /\ UNCHANGED << pixels, fill, panel, legacy, fwd >>

\* Mutant of Clear: the rectangles keep their fill.
ClearGridOnly ==
  \E res \in { UpdateResults(Blank) } :
      /\ pixels' = Blank
      /\ panel' \in res.panels
      /\ fwd' = res.fwd
      /\ last' = [Event("clear", 0, 0) EXCEPT
                    !.refreshed = TRUE, !.forward = res.forward]
      /\ UNCHANGED << fill, drawing, legacy >>

\* clear()
Clear ==
  \E res \in { UpdateResults(Blank) } :
      /\ pixels' = Blank
      /\ fill' = White
      /\ panel' \in res.panels
      /\ fwd' = res.fwd
      /\ last' = [Event("clear", 0, 0) EXCEPT
                    !.refreshed = TRUE, !.forward = res.forward]
      /\ UNCHANGED << drawing, legacy >>

\* The paints of a stroke along the centres of the cells c, c+1, ... of
\* row r.  st.updated tells whether any paint so far refreshed the panel;
\* visited and written are those of the last paint.
RECURSIVE StrokeRow(_, _, _, _)
StrokeRow(st, legacy_, r, c) ==
  IF c >= cols \/ st.error THEN st
  ELSE LET x == ((2 * c + 1) * cell_size) \div 2
           y == ((2 * r + 1) * cell_size) \div 2
           nx == Paint(st.pixels, st.fill, legacy_, x, y)
       IN  StrokeRow([nx EXCEPT !.updated = @ \/ st.updated], legacy_, r, c + 1)

\* The paints of a stroke that goes through the centre of every cell in
\* row-major order, from row r on.
RECURSIVE StrokeFrom(_, _, _)
StrokeFrom(st, legacy_, r) ==
  IF r >= rows \/ st.error THEN st
  ELSE StrokeFrom(StrokeRow(st, legacy_, r, 0), legacy_, r + 1)

\* That stroke on the blank canvas, for either numpy.
StrokeOnBlank ==
  Table([l \in BOOLEAN |->
           StrokeFrom([pixels |-> Blank, fill |-> White, updated |-> FALSE,
                       error |-> FALSE, visited |-> {}, written |-> {}], l, 0)])

\* A whole stroke on a blank canvas: _start_draw at the centre of cell
\* (0, 0), then _draw at the centre of every other cell.  A paint that does
\* not refresh the panel leaves the grid as it was, so the panel the stroke
\* ends with is that of the last refresh, on the grid the stroke ends with.
\* Explored as the first stroke of a session.
StrokeAllCentres ==
  /\ last.op = "init"
  /\ pixels = Blank
  /\ fill = White
  /\ drawing' = TRUE
  /\ \E st \in { StrokeOnBlank[legacy] } :
        /\ pixels' = st.pixels
        /\ fill' = st.fill
        /\ Refresh(st, "stroke", canvas_width - cell_size \div 2,
                   canvas_height - cell_size \div 2)
  /\ UNCHANGED legacy

Next ==
  \/ \E p \in OnCanvas : StartDraw(p[1], p[2])
  \/ \E p \in Positions : Draw(p[1], p[2])
  \/ StopDraw
  \/ Clear
  \/ StrokeAllCentres

Spec == Init /\ [][Next]_vars

\* --------------------------------------------- the renderer on its own
\* The ranking and rendering of lines 159-169, applied to network outputs
\* drawn from ProbInputs: the example of the specification, and vectors in
\* which up to MaxTied digits share a probability.
MaxTied == 2

ExampleProbs ==
  [d \in Digits |-> IF d = 9 THEN 9000 ELSE IF d = 0 THEN 1000 ELSE 0]

TieLevels == { 0, 500, 9000 }

TiedProbs(T, v) == [d \in Digits |-> IF d \in T THEN v ELSE 100 * (d + 1)]

ProbInputs ==
  { ExampleProbs } \cup
  { TiedProbs(T, v) :
      T \in { S \in SUBSET Digits : Cardinality(S) \in 1 .. MaxTied },
      v \in TieLevels }

InitRank ==
  /\ pixels = Blank
  /\ fill = White
  /\ drawing = FALSE
  /\ legacy = FALSE
  /\ panel = ZeroPanel
  /\ last = Event("init", 0, 0)
  /\ \E p \in ProbInputs : fwd = [NoForward EXCEPT !.probs = p]

RenderOutput ==
  /\ last.op = "init"
  /\ \E ev \in { [Event("render", 0, 0) EXCEPT !.refreshed = TRUE,
                                                 !.forward = TRUE] } :
       /\ last' = ev
       /\ panel' \in RenderOutputs(fwd.probs)
  /\ UNCHANGED << pixels, fill, drawing, legacy, fwd >>

NextRank == RenderOutput

SpecRank == InitRank /\ [][NextRank]_vars

\* ------------------------------------------------------------------ claims
\* The handler recorded in ev painted: a pointer-down, or a drag with the
\* drawing flag set.
PaintOp(ev) == ev.op = "start" \/ (ev.op = "draw" /\ ev.armed)

\* The falloff intensity the brush at (x, y) computes for cell (r, c), 0
\* beyond the radius.
Computed(r, c, x, y) ==
  LET d2 == Dist2(r, c, x, y)
  IN  IF d2 <= brush_radius * brush_radius THEN FalloffIntensity(d2) ELSE 0

AllZero == \A r \in Rows : \A c \in Cols : pixels[r][c] = 0

ZeroListing ==
  << "0:    0.00%", "1:    0.00%", "2:    0.00%", "3:    0.00%",
     "4:    0.00%", "5:    0.00%", "6:    0.00%", "7:    0.00%",
     "8:    0.00%", "9:    0.00%" >>

\* C1: in every step that is not a Clear no cell's stored intensity
\* decreases, and a paint at (x, y) leaves every cell at the maximum of its
\* stored intensity and the intensity computed for it.
C1_Monotone ==
  [][ /\ last'.op # "clear" =>
           \A r \in Rows : \A c \in Cols : pixels'[r][c] >= pixels[r][c]
      /\ PaintOp(last') =>
           \A r \in Rows : \A c \in Cols :
             pixels'[r][c] = Max(pixels[r][c], Computed(r, c, last'.x, last'.y))
    ]_vars

\* A paint raised some cells and left one, for which it computed a lower
\* intensity than the stored one, as it was.
C1_Witness ==
  /\ PaintOp(last)
  /\ last.written # {}
  /\ \E cell \in last.visited \ last.written :
       /\ Computed(cell[1], cell[2], last.x, last.y) > 0
       /\ pixels[cell[1]][cell[2]] > Computed(cell[1], cell[2], last.x, last.y)

\* C2: after Clear every cell is 0, every rectangle is white and the panel
\* is the ten 0.00% lines of the digits 0..9 in order.
C2_ClearResets ==
  last.op = "clear" =>
    /\ \A r \in Rows : \A c \in Cols : pixels[r][c] = 0 /\ fill[r][c] = "white"
    /\ panel = ZeroListing

\* Clear ran on a canvas with ink.
C2_Witness == last.op = "clear" /\ last.inked /\ AllZero

\* C3: after every handler the panel is the rendering of the current grid:
\* the zero listing when the grid is all zero, else a ranking of the
\* network's output for the preprocessed grid.
C3_PanelCurrent ==
  IF AllZero THEN panel = ZeroListing
  ELSE panel \in RenderOutputs(Feedforward(Preprocess(pixels).vect))

\* A paint changed a grid that already had ink, and refreshed the panel.
C3_Witness ==
  PaintOp(last) /\ last.inked /\ last.written # {} /\ last.refreshed

\* The brush circle at (x, y) has no point in common with the canvas.
CircleOutside(x, y) ==
  LET ox == Max(0, Max(-x, x - canvas_width))
      oy == Max(0, Max(-y, y - canvas_height))
  IN  ox * ox + oy * oy > brush_radius * brush_radius

\* The bounding square of the brush at (x, y) reaches no cell.
SquareOutside(x, y) ==
  \/ x + brush_radius < 0 \/ x - brush_radius >= canvas_width
  \/ y + brush_radius < 0 \/ y - brush_radius >= canvas_height

C5_ZeroShortCircuit ==
  /\ (last.refreshed /\ AllZero) => (panel = ZeroListing /\ ~last.forward)
  /\ last.forward => ~AllZero

\* The results were updated on a grid that Clear had just emptied.
C5_Witness ==
  last.op = "clear" /\ last.inked /\ last.refreshed /\ ~last.forward

\* C6: after the transform the centre of mass of the image lies within one
\* cell of the centre (rows/2, cols/2); for a single pixel, the pixel does.
C6_Recentered ==
  last.forward =>
    LET img == fwd.centered
        rowSum == [r \in Rows |-> SumTo(img[r], 0, cols - 1)]
        colSum == [c \in Cols |-> SumTo([r \in Rows |-> img[r][c]], 0, rows - 1)]
        w == SumTo(rowSum, 0, rows - 1)
        sy == SumTo([r \in Rows |-> r * rowSum[r]], 0, rows - 1)
        sx == SumTo([c \in Cols |-> c * colSum[c]], 0, cols - 1)
    IN  /\ w > 0
        /\ -w < sy - (rows \div 2) * w /\ sy - (rows \div 2) * w < w
        /\ -w < sx - (cols \div 2) * w /\ sx - (cols \div 2) * w < w

\* C7: the vector handed to the network has 784 entries, each in [0, 1].
C7_UnitVector ==
  last.forward =>
    /\ Len(fwd.vect) = 784
    /\ \A k \in 1 .. Len(fwd.vect) :
         0 <= fwd.vect[k].num /\ fwd.vect[k].num <= fwd.vect[k].den

\* C8: the listing rendered for a network output has ten lines, one for
\* each digit, every line's probability at least that of the next, so the
\* first line is a digit of maximal probability; the example output puts
\* "9:  90.00%" first.
C8_Ranked ==
  last.op = "render" =>
    \A lines \in { Table([d \in Digits |-> RankedLine(d, fwd.probs[d])]) } :
      /\ Len(panel) = 10
      /\ \A i \in 1 .. 10 : \E d \in Digits : panel[i] = lines[d]
      /\ \A digit \in { Table([i \in 1 .. 10 |->
                                 CHOOSE d \in Digits : panel[i] = lines[d]]) } :
           /\ \A d \in Digits : Cardinality({ i \in 1 .. 10 : digit[i] = d }) = 1
           /\ \A i \in 1 .. 9 : fwd.probs[digit[i]] >= fwd.probs[digit[i + 1]]
           /\ \A d \in Digits : fwd.probs[digit[1]] >= fwd.probs[d]
      /\ fwd.probs = ExampleProbs => panel[1] = "9:  90.00%"

\* The example output was rendered.
C8_Witness ==
  last.op = "render" /\ fwd.probs = ExampleProbs /\ panel[1] = "9:  90.00%"

\* C9: a paint at the point of the paint just before it changes no cell and
\* no fill and does not refresh the panel.
C9_RepaintIdle ==
  [][ ( /\ PaintOp(last) /\ PaintOp(last')
        /\ last'.x = last.x /\ last'.y = last.y )
      => ( pixels' = pixels /\ fill' = fill /\ ~last'.refreshed ) ]_vars

\* C10: pointer-up only clears the drawing flag; a drag with the flag clear
\* changes nothing; a drag changes the grid only with the flag set.
C10_FlagOnly ==
  [][ /\ last'.op = "stop" =>
           ~drawing' /\ UNCHANGED << pixels, fill, panel >>
      /\ (last'.op = "draw" /\ ~drawing) =>
           UNCHANGED << pixels, fill, panel, drawing >>
      /\ (last'.op = "draw" /\ pixels' # pixels) => drawing
    ]_vars

\* A drag arrived after a stroke had ended, on a canvas with ink.
C10_Witness == last.op = "draw" /\ ~last.armed /\ ~drawing /\ last.inked

====
